---- MODULE Spec2Model ----
(***************************************************************************)
(* Model of src/app.py: the trip planner's two tables (trips, day_items),  *)
(* the AUTOINCREMENT counters kept in sqlite_sequence, and one action per  *)
(* Flask route handler.  Text is a sequence of one-character strings, so   *)
(* str.strip(), int() and float() are computed character by character.     *)
(* A handler is an operator from the request to its outcome (the response  *)
(* status, the rendered values and the tables after the commit); the       *)
(* action of the same route applies it to the current tables.              *)
(***************************************************************************)
EXTENDS Integers, Sequences, FiniteSets, TLC

VARIABLES trips, day_items, trip_seq, item_seq, insert_log, req, resp

vars == <<trips, day_items, trip_seq, item_seq, insert_log, req, resp>>

----------------------------------------------------------------------------
(* Bounds of the model *)

\* rows ever inserted, in both tables together (cap on the sum of the two
\* AUTOINCREMENT counters)
MaxRows == 3

----------------------------------------------------------------------------
(* Text and number conversions of the Python runtime *)

Whitespace == {" "}

DigitChars == <<"0", "1", "2", "3", "4", "5", "6", "7", "8", "9">>

IsDigit(c) == \E n \in 1..10 : DigitChars[n] = c

DigitValue(c) == (CHOOSE n \in 1..10 : DigitChars[n] = c) - 1

RECURSIVE lstrip(_)
lstrip(s) == IF s # <<>> /\ Head(s) \in Whitespace THEN lstrip(Tail(s)) ELSE s

RECURSIVE rstrip(_)
rstrip(s) ==
    IF s # <<>> /\ s[Len(s)] \in Whitespace
    THEN rstrip(SubSeq(s, 1, Len(s) - 1))
    ELSE s

\* str.strip(): leading and trailing whitespace removed
strip(s) == rstrip(lstrip(s))

RECURSIVE DigitsValue(_)
DigitsValue(s) ==
    IF s = <<>> THEN 0
    ELSE 10 * DigitsValue(SubSeq(s, 1, Len(s) - 1)) + DigitValue(s[Len(s)])

\* A decimal literal as int() and float() read it: surrounding whitespace,
\* an optional sign, then one or more digits.  ok = FALSE is ValueError.
ParseNumber(s) ==
    LET t      == strip(s)
        signed == t # <<>> /\ Head(t) \in {"+", "-"}
        digits == IF signed THEN Tail(t) ELSE t
    IN  IF digits # <<>> /\ \A i \in 1..Len(digits) : IsDigit(digits[i])
        THEN [ok |-> TRUE,
              val |-> IF signed /\ Head(t) = "-"
                      THEN 0 - DigitsValue(digits) ELSE DigitsValue(digits)]
        ELSE [ok |-> FALSE, val |-> 0]

\* request.form.get(key, default)
FormGet(form, key, default) ==
    IF key \in DOMAIN form THEN form[key] ELSE default

\* int(request.form.get(key, "0") or 0): a blank field is the integer 0,
\* anything else goes through int()
IntField(form, key) ==
    LET s == FormGet(form, key, <<"0">>)
    IN  IF s = <<>> THEN [ok |-> TRUE, val |-> 0] ELSE ParseNumber(s)

\* float(request.form.get(key, "0") or 0); the forms of this model carry
\* integral literals only, which float() reads as int() does
FloatField(form, key) ==
    LET s == FormGet(form, key, <<"0">>)
    IN  IF s = <<>> THEN [ok |-> TRUE, val |-> 0] ELSE ParseNumber(s)

\* request.form.get(key, "").strip()
TextField(form, key) == strip(FormGet(form, key, <<>>))

\* SQL NULL in a TEXT column
Null == <<"NULL">>

\* request.form.get(key, "").strip() or None
OptionalField(form, key) ==
    IF TextField(form, key) = <<>> THEN Null ELSE TextField(form, key)

----------------------------------------------------------------------------
(* The database *)

\* version not in (1, 2, 3)
ValidVersions == {1, 2, 3}

\* INTEGER PRIMARY KEY AUTOINCREMENT: one more than the largest id the
\* table has ever held (sqlite_sequence), so a deleted id is never reused
NextRowId(seq) == seq + 1

TripIds == {t.id : t \in trips}

ItemIds == {i.id : i \in day_items}

\* SELECT * FROM trips WHERE id = ?  (the empty set when there is no row)
SelectTrip(trip_id) == {t \in trips : t.id = trip_id}

\* ORDER BY day_number ASC, id ASC
RowBefore_IdAscending(r, q) ==
    \/ r.day_number < q.day_number
    \/ r.day_number = q.day_number /\ r.id <= q.id

\* ORDER BY day_number ASC, id DESC: r is listed no later than q
RowBefore(r, q) ==
    \/ r.day_number < q.day_number
    \/ r.day_number = q.day_number /\ r.id >= q.id

RECURSIVE OrderRows(_)
OrderRows(rows) ==
    IF rows = {} THEN <<>>
    ELSE LET first == CHOOSE r \in rows : \A q \in rows : RowBefore(r, q)
         IN  <<first>> \o OrderRows(rows \ {first})

\* SELECT * FROM day_items WHERE trip_id = ? ORDER BY day_number ASC, id DESC
SelectItems(trip_id) == OrderRows({i \in day_items : i.trip_id = trip_id})

\* the same DELETE on a connection that never ran PRAGMA foreign_keys = ON:
\* SQLite then ignores ON DELETE CASCADE
CascadeItems_ForeignKeysOff(trip_id) == day_items

\* DELETE FROM trips WHERE id = ?, on a connection with foreign_keys = ON:
\* ON DELETE CASCADE removes the trip's day items with it
CascadeItems(trip_id) == {i \in day_items : i.trip_id # trip_id}

RECURSIVE SumSeq(_)
SumSeq(items) ==
    IF items = <<>> THEN 0
    ELSE Head(items).expense_amount + SumSeq(Tail(items))

RECURSIVE SumSet(_)
SumSet(rows) ==
    IF rows = {} THEN 0
    ELSE LET r == CHOOSE x \in rows : TRUE
         IN  r.expense_amount + SumSet(rows \ {r})

----------------------------------------------------------------------------
(* Outcomes of a request: the response and the tables after it *)

NoBody == [summaries |-> <<>>, trip_total |-> 0]

\* The request ends without a commit: abort(404), abort(400) or an
\* exception no handler catches (500).  close_db closes the connection and
\* nothing the request wrote survives.
Aborted(code) ==
    [status |-> code, body |-> NoBody,
     trips |-> trips, day_items |-> day_items,
     trip_seq |-> trip_seq, item_seq |-> item_seq, insert_log |-> insert_log]

\* render_template(...) of a read-only handler
Rendered(body) == [Aborted(200) EXCEPT !.body = body]

\* commit, then redirect(url_for(...))
Redirected(new_trips, new_items, new_trip_seq, new_item_seq, new_log) ==
    [status |-> 302, body |-> NoBody,
     trips |-> new_trips, day_items |-> new_items,
     trip_seq |-> new_trip_seq, item_seq |-> new_item_seq,
     insert_log |-> new_log]

----------------------------------------------------------------------------
(* Summary builder *)

\* items_by_day[row["day_number"]].append(...) raises KeyError when a row's
\* day number is not one of the keys 1..days
build_day_summaries(trip_id, days) ==
    LET rows == SelectItems(trip_id)
        InDay(d) == SelectSeq(rows, LAMBDA r : r.day_number = d)
    IN  IF \E n \in 1..Len(rows) : rows[n].day_number \notin 1..days
        THEN [ok |-> FALSE, summaries |-> <<>>]
        ELSE [ok |-> TRUE,
              summaries |->
                  [d \in 1..days |->
                      [day_number |-> d, items |-> InDay(d),
                       total |-> SumSeq(InDay(d))]]]

\* SELECT COALESCE(SUM(expense_amount), 0) FROM day_items WHERE trip_id = ?
calculate_trip_total(trip_id) ==
    SumSet({i \in day_items : i.trip_id = trip_id})

----------------------------------------------------------------------------
(* Route handlers: the outcome of one request on the current tables *)

\* if not name or days < 0: abort(400)
RejectsTrip_ZeroDaysPass(name, days) == name = <<>> \/ days < 0

\* if not name or days <= 0: abort(400)
RejectsTrip(name, days) == name = <<>> \/ days <= 0

\* if day_number < 1 or day_number > trip["days"]: abort(400)
RejectsDay(day_number, days) == day_number < 1 \/ day_number > days

landing == Rendered(NoBody)

list_trips(version) ==
    IF version \notin ValidVersions THEN Aborted(404) ELSE Rendered(NoBody)

create_trip(version, form) ==
    LET name == TextField(form, "name")
        days == IntField(form, "days")
        id   == NextRowId(trip_seq)
    IN  IF version \notin ValidVersions THEN Aborted(404)
        ELSE IF ~days.ok THEN Aborted(500)
        ELSE IF RejectsTrip(name, days.val) THEN Aborted(400)
        ELSE Redirected(
                 trips \cup {[id |-> id, name |-> name, days |-> days.val]},
                 day_items, id, item_seq, insert_log)

view_trip(version, trip_id) ==
    LET found == SelectTrip(trip_id)
        trip  == CHOOSE t \in found : TRUE
        built == build_day_summaries(trip_id, trip.days)
    IN  IF version \notin ValidVersions THEN Aborted(404)
        ELSE IF found = {} THEN Aborted(404)
        ELSE IF ~built.ok THEN Aborted(500)
        ELSE Rendered([summaries |-> built.summaries,
                       trip_total |-> calculate_trip_total(trip_id)])

edit_trip(version, trip_id, form) ==
    LET name == TextField(form, "name")
        days == IntField(form, "days")
    IN  IF version \notin ValidVersions THEN Aborted(404)
        ELSE IF SelectTrip(trip_id) = {} THEN Aborted(404)
        ELSE IF ~days.ok THEN Aborted(500)
        ELSE IF RejectsTrip(name, days.val) THEN Aborted(400)
        ELSE Redirected(
                 {IF t.id = trip_id
                  THEN [t EXCEPT !.name = name, !.days = days.val] ELSE t
                  : t \in trips},
                 day_items, trip_seq, item_seq, insert_log)

delete_trip(version, trip_id) ==
    IF version \notin ValidVersions THEN Aborted(404)
    ELSE Redirected({t \in trips : t.id # trip_id}, CascadeItems(trip_id),
                    trip_seq, item_seq, insert_log)

add_item(version, trip_id, form) ==
    LET found      == SelectTrip(trip_id)
        trip       == CHOOSE t \in found : TRUE
        day_number == IntField(form, "day_number")
        title      == TextField(form, "title")
        amount     == FloatField(form, "expense_amount")
        id         == NextRowId(item_seq)
    IN  IF version \notin ValidVersions THEN Aborted(404)
        ELSE IF found = {} THEN Aborted(404)
        ELSE IF ~day_number.ok THEN Aborted(500)
        ELSE IF RejectsDay(day_number.val, trip.days) THEN Aborted(400)
        ELSE IF title = <<>> THEN Aborted(400)
        ELSE IF ~amount.ok THEN Aborted(500)
        ELSE Redirected(
                 trips,
                 day_items \cup
                     {[id |-> id, trip_id |-> trip_id,
                       day_number |-> day_number.val, title |-> title,
                       map_link |-> OptionalField(form, "map_link"),
                       expense_name |-> OptionalField(form, "expense_name"),
                       expense_amount |-> amount.val]},
                 trip_seq, id,
                 Append(insert_log, [id |-> id, trip_id |-> trip_id]))

\* delete_item with the DELETE and its commit moved above fetch_trip
delete_item_DeleteFirst(version, trip_id, item_id) ==
    IF version \notin ValidVersions THEN Aborted(404)
    ELSE [Aborted(IF SelectTrip(trip_id) = {} THEN 404 ELSE 302)
             EXCEPT !.day_items = {i \in day_items : i.id # item_id}]

\* delete_item with DELETE ... WHERE id = ? AND trip_id = ?
delete_item_OwnedOnly(version, trip_id, item_id) ==
    IF version \notin ValidVersions THEN Aborted(404)
    ELSE IF SelectTrip(trip_id) = {} THEN Aborted(404)
    ELSE Redirected(trips,
                    {i \in day_items : ~(i.id = item_id /\ i.trip_id = trip_id)},
                    trip_seq, item_seq, insert_log)

delete_item(version, trip_id, item_id) ==
    IF version \notin ValidVersions THEN Aborted(404)
    ELSE IF SelectTrip(trip_id) = {} THEN Aborted(404)
    ELSE Redirected(trips, {i \in day_items : i.id # item_id},
                    trip_seq, item_seq, insert_log)

----------------------------------------------------------------------------
(* Requests the model sends *)

\* a form field the browser does not send
Absent == <<"ABSENT">>

\* the form holding the given <<key, value>> fields, less the absent ones
Form(fields) ==
    LET sent == {f \in fields : f[2] # Absent}
    IN  [k \in {f[1] : f \in sent} |-> (CHOOSE f \in sent : f[1] = k)[2]]

\* one recognized and one unrecognized version
VersionInputs == {3, 4}

\* every id a table holds, and one it does not hold
TripIdInputs == TripIds \cup {NextRowId(trip_seq)}

ItemIdInputs == ItemIds \cup {NextRowId(item_seq)}

NameInputs == {Absent, <<" ">>, <<" ", "a", " ">>}

DaysInputs ==
    {Absent, <<>>, <<"x">>, <<"0">>, <<"-", "1">>, <<"1">>, <<" ", "2">>}

DayNumberInputs ==
    {Absent, <<>>, <<"x">>, <<"0">>, <<"1">>, <<"2">>, <<"3">>}

TitleInputs == {Absent, <<" ">>, <<"t", " ">>}

AmountInputs == {Absent, <<"x">>, <<"5">>}

TripForm(n, d) == Form({<<"name", n>>, <<"days", d>>})

ItemForm(d, t, m, e, a) ==
    Form({<<"day_number", d>>, <<"title", t>>, <<"map_link", m>>,
          <<"expense_name", e>>, <<"expense_amount", a>>})

\* an add-item form that names its expense and links a map
ExpenseForm(d, t) == ItemForm(d, t, <<" ", "m">>, <<"e">>, <<"5">>)

\* an add-item form with a blank map link and no expense name
PlainForm(d, t, a) == ItemForm(d, t, <<" ">>, Absent, a)

\* a form that passes every check of its handler
GoodTripForm == TripForm(<<" ", "a", " ">>, <<"1">>)

GoodItemForm == ExpenseForm(<<"1">>, <<"t", " ">>)

\* every days value with a good name, every name with a good days value,
\* and a form with both fields bad
TripForms ==
    {TripForm(<<" ", "a", " ">>, d) : d \in DaysInputs}
        \cup {TripForm(n, <<" ", "2">>) : n \in NameInputs}
        \cup {TripForm(<<" ">>, <<"x">>)}

\* every value of one field with good values of the others, and forms with
\* two bad fields, which tell the order of the handler's checks
ItemForms ==
    {ExpenseForm(d, <<"t", " ">>) : d \in DayNumberInputs}
        \cup {ExpenseForm(d, t) : d \in {<<"1">>, <<"2">>}, t \in TitleInputs}
        \cup {PlainForm(d, <<"t", " ">>, a) :
                d \in {<<"1">>, <<"2">>}, a \in AmountInputs \ {<<"5">>}}
        \cup {PlainForm(<<"x">>, <<" ">>, <<"5">>),
              PlainForm(<<"3">>, <<"t", " ">>, <<"x">>),
              PlainForm(<<"1">>, <<" ">>, <<"x">>)}

----------------------------------------------------------------------------
(* The state machine *)

\* no form: a GET request, or a POST route that reads no field
NoForm == <<>>

Request(op, version, trip_id, item_id, form) ==
    [op |-> op, version |-> version, trip_id |-> trip_id,
     item_id |-> item_id, form |-> form]

\* One request served: the request, its response and the tables it leaves.
\* The two id counters together are capped at MaxRows.
Serve(request, out) ==
    /\ out.trip_seq + out.item_seq <= MaxRows
    /\ trips' = out.trips
    /\ day_items' = out.day_items
    /\ trip_seq' = out.trip_seq
    /\ item_seq' = out.item_seq
    /\ insert_log' = out.insert_log
    /\ req' = request
    /\ resp' = [status |-> out.status, body |-> out.body]

\* init_db() on a fresh database file: both tables exist and are empty
Init ==
    /\ trips = {}
    /\ day_items = {}
    /\ trip_seq = 0
    /\ item_seq = 0
    /\ insert_log = <<>>
    /\ req = Request("init_db", 0, 0, 0, NoForm)
    /\ resp = [status |-> 0, body |-> NoBody]

\* A request with an unrecognized version is sent once for each route, with
\* the first ids and a form that is otherwise good.
Sent(v, t, i, f, good) == v \in ValidVersions \/ (t = 1 /\ i = 1 /\ f = good)

Landing == Serve(Request("landing", 0, 0, 0, NoForm), landing)

ListTrips ==
    \E v \in VersionInputs :
        Serve(Request("list_trips", v, 0, 0, NoForm), list_trips(v))

CreateTrip ==
    \E v \in VersionInputs, f \in TripForms :
        /\ Sent(v, 1, 1, f, GoodTripForm)
        /\ Serve(Request("create_trip", v, 0, 0, f), create_trip(v, f))

ViewTrip ==
    \E v \in VersionInputs, t \in TripIdInputs :
        /\ Sent(v, t, 1, NoForm, NoForm)
        /\ Serve(Request("view_trip", v, t, 0, NoForm), view_trip(v, t))

EditTrip ==
    \E v \in VersionInputs, t \in TripIdInputs, f \in TripForms :
        /\ Sent(v, t, 1, f, GoodTripForm)
        /\ Serve(Request("edit_trip", v, t, 0, f), edit_trip(v, t, f))

DeleteTrip ==
    \E v \in VersionInputs, t \in TripIdInputs :
        /\ Sent(v, t, 1, NoForm, NoForm)
        /\ Serve(Request("delete_trip", v, t, 0, NoForm), delete_trip(v, t))

AddItem ==
    \E v \in VersionInputs, t \in TripIdInputs, f \in ItemForms :
        /\ Sent(v, t, 1, f, GoodItemForm)
        /\ Serve(Request("add_item", v, t, 0, f), add_item(v, t, f))

DeleteItem ==
    \E v \in VersionInputs, t \in TripIdInputs, i \in ItemIdInputs :
        /\ Sent(v, t, i, NoForm, NoForm)
        /\ Serve(Request("delete_item", v, t, i, NoForm), delete_item(v, t, i))

Next ==
    \/ Landing
    \/ ListTrips
    \/ CreateTrip
    \/ ViewTrip
    \/ EditTrip
    \/ DeleteTrip
    \/ AddItem
    \/ DeleteItem

Spec == Init /\ [][Next]_vars

----------------------------------------------------------------------------
(* Properties *)

TripRoutes == {"view_trip", "edit_trip", "delete_trip", "add_item", "delete_item"}

VersionedRoutes == TripRoutes \cup {"list_trips", "create_trip"}

\* the trip row with the given id (the caller knows there is one)
TripRow(trip_id) == CHOOSE t \in trips : t.id = trip_id

\* the request went to the given route with a recognized version
Served(op) == req.op = op /\ req.version \in ValidVersions

\* C1: every stored trip has days >= 1 and a name that is non-empty and
\* carries no leading or trailing whitespace, after any sequence of
\* requests with any form values.
C1_StoredTripsValid ==
    \A t \in trips : t.days >= 1 /\ t.name # <<>> /\ strip(t.name) = t.name

\* a create or edit with a days value of zero or less was just rejected,
\* and the trips stored before it are still there
C1_Witness ==
    /\ req.op \in {"create_trip", "edit_trip"}
    /\ IntField(req.form, "days").ok
    /\ IntField(req.form, "days").val <= 0
    /\ resp.status = 400
    /\ \E t \in trips : t.days = 2

\* C2: a served delete-trip request for trip t leaves exactly the day
\* items of the other trips, none of trip t; and in every state each day
\* item's trip reference names a stored trip.
C2_DeleteTripCascades ==
    /\ [][(req'.op = "delete_trip" /\ resp'.status = 302) =>
            /\ trips' = {t \in trips : t.id # req'.trip_id}
            /\ day_items' = {i \in day_items : i.trip_id # req'.trip_id}
            /\ \A i \in day_items' : i.trip_id # req'.trip_id]_vars
    /\ [](\A i \in day_items : i.trip_id \in TripIds)

\* a delete-trip request has just removed a trip that had a day item, and
\* another trip is still stored
C2_Witness ==
    /\ req.op = "delete_trip"
    /\ resp.status = 302
    /\ req.trip_id \notin TripIds
    /\ \E n \in 1..Len(insert_log) : insert_log[n].trip_id = req.trip_id
    /\ trips # {}

\* the day number and the title an add-item form asks for, a field that
\* is no number counting as 0
AsksDay(form) == IntField(form, "day_number").val

AsksTitle(form) == TextField(form, "title")

\* C3: an add-item request for a stored trip inserts exactly one item when
\* 1 <= day_number <= trip.days and the trimmed title is non-empty, and
\* otherwise answers 400 and inserts nothing.
C3_AddItemIffValid ==
    [][(req'.op = "add_item" /\ req'.version \in ValidVersions
            /\ req'.trip_id \in TripIds) =>
        IF /\ AsksDay(req'.form) \in 1..TripRow(req'.trip_id).days
           /\ AsksTitle(req'.form) # <<>>
        THEN /\ resp'.status = 302
             /\ day_items \subseteq day_items'
             /\ Cardinality(day_items' \ day_items) = 1
             /\ \A i \in day_items' \ day_items :
                    /\ i.trip_id = req'.trip_id
                    /\ i.day_number = AsksDay(req'.form)
        ELSE /\ resp'.status = 400
             /\ day_items' = day_items]_vars

\* the summaries view-trip rendered are one per day 1..days in ascending
\* order, each holding the trip's items of that day and no others
SummariesCoverDays(summaries, trip) ==
    /\ Len(summaries) = trip.days
    /\ \A d \in 1..trip.days :
        /\ summaries[d].day_number = d
        /\ {summaries[d].items[n] : n \in 1..Len(summaries[d].items)} =
               {i \in day_items : i.trip_id = trip.id /\ i.day_number = d}

\* C4: viewing a stored trip renders exactly trip.days day summaries, for
\* the days 1..trip.days in ascending order, whatever items the trip has.
C4_ViewRendersEveryDay ==
    (Served("view_trip") /\ req.trip_id \in TripIds) =>
        /\ resp.status = 200
        /\ SummariesCoverDays(resp.body.summaries, TripRow(req.trip_id))

RECURSIVE SumTotals(_)
SumTotals(summaries) ==
    IF summaries = <<>> THEN 0
    ELSE Head(summaries).total + SumTotals(Tail(summaries))

\* each per-day total is the sum over the trip's items of that day, the
\* trip total is the sum over all of the trip's items, and the per-day
\* totals add up to the trip total
TotalsAgree(body, trip) ==
    /\ \A d \in DOMAIN body.summaries :
           body.summaries[d].total =
               SumSet({i \in day_items : i.trip_id = trip.id /\ i.day_number = d})
    /\ body.trip_total = SumSet({i \in day_items : i.trip_id = trip.id})
    /\ SumTotals(body.summaries) = body.trip_total

\* C5: viewing a stored trip renders per-day totals and a trip total that
\* are the sums of the expense amounts, and the per-day totals add up to
\* the trip total.
C5_ViewTotalsAgree ==
    (Served("view_trip") /\ req.trip_id \in TripIds) =>
        /\ resp.status = 200
        /\ Len(resp.body.summaries) = TripRow(req.trip_id).days
        /\ TotalsAgree(resp.body, TripRow(req.trip_id))

\* the form carries the field and its text is no number
NonNumeric(form, key) ==
    key \in DOMAIN form /\ form[key] # <<>> /\ ~ParseNumber(form[key]).ok

\* C6: a non-numeric days or day_number field counts as 0 and the request
\* is answered 400; a non-numeric expense_amount in an otherwise valid
\* add-item request stores the item with amount 0.
C6_NonNumericCountsAsZero ==
    /\ (Served("create_trip") /\ NonNumeric(req.form, "days")) =>
           resp.status = 400
    /\ (Served("edit_trip") /\ req.trip_id \in TripIds
            /\ NonNumeric(req.form, "days")) =>
           resp.status = 400
    /\ (Served("add_item") /\ req.trip_id \in TripIds
            /\ NonNumeric(req.form, "day_number")) =>
           resp.status = 400
    /\ (Served("add_item") /\ req.trip_id \in TripIds
            /\ AsksDay(req.form) \in 1..TripRow(req.trip_id).days
            /\ AsksTitle(req.form) # <<>>
            /\ NonNumeric(req.form, "expense_amount")) =>
           /\ resp.status = 302
           /\ \E i \in day_items : i.id = item_seq /\ i.expense_amount = 0

\* C7: a request to a route that names a trip id is answered 404 when no
\* trip has that id, and a request with a version other than 1, 2, 3 is
\* answered 404.
C7_MissingTripOrVersionIs404 ==
    [][/\ (req'.op \in TripRoutes /\ req'.trip_id \notin TripIds) =>
              resp'.status = 404
       /\ (req'.op \in VersionedRoutes /\ req'.version \notin ValidVersions) =>
              resp'.status = 404]_vars

\* C8: a request answered 404 or 400 leaves both tables as they were, and
\* list-trips and view-trip requests never change either table.
C8_RejectedRequestsWriteNothing ==
    [][(resp'.status \in {400, 404} \/ req'.op \in {"list_trips", "view_trip"}) =>
          /\ trips' = trips
          /\ day_items' = day_items]_vars

\* an add-item request for a trip that holds an item was just answered 400
C8_Witness ==
    /\ req.op = "add_item"
    /\ resp.status = 400
    /\ \E i \in day_items : i.trip_id = req.trip_id

\* the position of the add-item request that inserted the item
AddedAt(item) ==
    CHOOSE n \in 1..Len(insert_log) :
        /\ insert_log[n].id = item.id
        /\ \A m \in 1..Len(insert_log) : insert_log[m].id = item.id => m <= n

C10_DeleteItemIgnoresOwner ==
    [][(req'.op = "delete_item" /\ req'.version \in ValidVersions) =>
          IF req'.trip_id \in TripIds
          THEN /\ resp'.status = 302
               /\ day_items' = {i \in day_items : i.id # req'.item_id}
               /\ trips' = trips
          ELSE /\ resp'.status = 404
               /\ day_items' = day_items
               /\ trips' = trips]_vars

\* a delete-item request naming a stored trip was served for an item that
\* was added to another trip, and the item is gone
C10_Witness ==
    /\ req.op = "delete_item"
    /\ resp.status = 302
    /\ req.trip_id \in TripIds
    /\ req.item_id \notin ItemIds
    /\ \E n \in 1..Len(insert_log) :
           /\ insert_log[n].id = req.item_id
           /\ insert_log[n].trip_id # req.trip_id
           /\ insert_log[n].trip_id \in TripIds

====
